---------------------------- MODULE Spec2Model ----------------------------
(***************************************************************************)
(* Model of src/topographic_anomaly.py: the eight-sector binning of        *)
(* reference points around a measurement point, the two correction         *)
(* routines and the module-level batch driver.                             *)
(*                                                                         *)
(* Representation of the numbers.                                          *)
(*  - Lengths and heights are whole metres.  sqrt is the integer square    *)
(*    root; the coordinates the specifications draw are chosen so that     *)
(*    every planar distance is a whole number (ExactDistances), hence      *)
(*    every comparison with the cutoff, every min and every max is exact.  *)
(*  - A bearing is a whole number of eighths of pi (pi == 8).  atan2 is    *)
(*    exact on the axes and the diagonals; a direction strictly inside an  *)
(*    octant gets the odd value in the middle of that octant, which        *)
(*    floor((angle + pi) / (pi/4)) cannot tell from any other angle of the *)
(*    open octant.                                                         *)
(*  - A mean height is a rational Rat(num, den); a summand is computed    *)
(*    in whole metres.                                                     *)
(*  - A correction is a multiple of the common factor                      *)
(*    (2/8) * pi * gravity_constant * rho, so that only the scale          *)
(*    (10**5 or 1000) is multiplied in.                                    *)
(***************************************************************************)
EXTENDS Integers, Sequences, FiniteSets, TLC

VARIABLES
    measurement_points,  \* list of MeasurementPoint objects (line 156)
    reference_points,    \* list of ReferencePoint objects (line 157)
    calls,               \* history: arguments of every connect_reference_point call
    binned,              \* binned[i]: indices of the reference points already offered to point i
    pc,                  \* position of the running script / harness
    measurement_df,      \* input measurement records (line 28)
    reference_df,        \* input reference records (line 29)
    grav_corrections,    \* results of calculate_correction (line 170)
    verbose_corrections, \* results of calculate_correction_verbose
    m_cursor             \* measurement points the outer loop of line 160 has finished

vars == <<measurement_points, reference_points, calls, binned, pc,
          measurement_df, reference_df, grav_corrections, verbose_corrections,
          m_cursor>>

-----------------------------------------------------------------------------
(* Program constants *)

ref_point_seek_range == 1200

\* float('inf'): larger than every distance; only ever compared, never added.
Inf == 2147483647

\* pi in the bearing unit (eighths of pi).
pi == 8

\* The last factor of the production routine (10**5) and of the verbose one.
ScaleProduction == 100000

ScaleVerbose == 1000

Sectors == 1..8

-----------------------------------------------------------------------------
(* Bounds of the model *)

\* Harness: at most this many connect_reference_point calls on the point.
MaxCalls == 2

\* Batch: at most this many measurement records.
MaxMeasurements == 2

\* Batch: at most this many reference records.
MaxReferences == 2

-----------------------------------------------------------------------------
(* Arithmetic helpers *)

Abs(x) == IF x < 0 THEN -x ELSE x

Min2(a, b) == IF a <= b THEN a ELSE b

Max2(a, b) == IF a >= b THEN a ELSE b

RECURSIVE SqrtBisect(_, _, _)
SqrtBisect(n, lo, hi) ==
    IF lo >= hi THEN lo
    ELSE LET mid == (lo + hi + 1) \div 2
         IN  IF mid * mid <= n THEN SqrtBisect(n, mid, hi)
                               ELSE SqrtBisect(n, lo, mid - 1)

\* math.sqrt, to whole units (exact on perfect squares).
sqrt(n) == SqrtBisect(n, 0, Min2(n, 46340))

\* int(num / den) for den > 0: Python's int() truncates toward zero.
IntTrunc(num, den) == IF num >= 0 THEN num \div den ELSE -((-num) \div den)

RECURSIVE Gcd(_, _)
Gcd(a, b) == IF b = 0 THEN a ELSE Gcd(b, a % b)

\* The rational num/den (den > 0) in lowest terms.
Rat(num, den) ==
    LET g == Gcd(Abs(num), den)
    IN  [num |-> num \div g, den |-> den \div g]

RECURSIVE SumSeq(_)
SumSeq(s) == IF s = <<>> THEN 0 ELSE Head(s) + SumSeq(Tail(s))

\* math.atan2(y, x) in eighths of pi, range -7..8 (atan2(0, 0) = 0, and a
\* difference of two finite floats is never -0.0, so -pi is not produced).
atan2(y, x) ==
    CASE y = 0 /\ x >= 0 -> 0
      [] y = 0 /\ x < 0  -> pi
      [] x = 0 /\ y > 0  -> 4
      [] x = 0 /\ y < 0  -> -4
      [] x > 0 /\ y > 0  -> IF y = x THEN 2 ELSE IF y < x THEN 1 ELSE 3
      [] x < 0 /\ y > 0  -> IF y = -x THEN 6 ELSE IF y < -x THEN 7 ELSE 5
      [] x > 0 /\ y < 0  -> IF -y = x THEN -2 ELSE IF -y < x THEN -1 ELSE -3
      [] x < 0 /\ y < 0  -> IF y = x THEN -6 ELSE IF -y < -x THEN -7 ELSE -5

-----------------------------------------------------------------------------
(* The point classes *)

\* MeasurementPoint.__init__: the fields, no link, eight empty slices.
MeasurementPoint(id, north, east, height) ==
    [id |-> id, north |-> north, east |-> east, height |-> height,
     connected_refs |-> <<>>,
     slice_distances |->
        [i \in Sectors |-> [closest |-> Inf, farthest |-> 0, heights |-> <<>>]]]

\* ReferencePoint.__init__
ReferencePoint(id, north, east, height) ==
    [id |-> id, north |-> north, east |-> east, height |-> height]

distance_to(self, other_point) ==
    sqrt((self.north - other_point.north) * (self.north - other_point.north)
         + (self.east - other_point.east) * (self.east - other_point.east))

angle_to(self, other_point) ==
    atan2(other_point.east - self.east, other_point.north - self.north)

\* Faulty variant: the % 8 forgotten (angle = pi then names a ninth slice).
SliceOfNoWrap(angle) == IntTrunc(angle + pi, pi \div 4) + 1

\* line 58: slice = int((angle + pi) / (pi / 4)) % 8 + 1
SliceOf(angle) == (IntTrunc(angle + pi, pi \div 4) % 8) + 1

\* Faulty variant: the slice is updated with the last distance (no min).
UpdateSliceLastWins(slice_data, distance) ==
    [slice_data EXCEPT !.closest = distance,
                       !.farthest = Max2(slice_data.farthest, distance)]

\* Faulty variant: closest keeps the larger distance.
UpdateSliceClosestMax(slice_data, distance) ==
    [slice_data EXCEPT
        !.closest = IF slice_data.closest <= ref_point_seek_range
                    THEN Max2(slice_data.closest, distance) ELSE distance,
        !.farthest = Max2(slice_data.farthest, distance)]

\* lines 63-65: the update of the slice's closest and farthest.
UpdateSlice(slice_data, distance) ==
    [slice_data EXCEPT
        !.closest = IF slice_data.closest <= ref_point_seek_range
                    THEN Min2(slice_data.closest, distance) ELSE distance,
        !.farthest = Max2(slice_data.farthest, distance)]

\* lines 61-65: what an accepted call does to the point.
Accept(self, ref_point, distance, slice) ==
    [self EXCEPT
        !.connected_refs =
            Append(@, [ref_point |-> ref_point, distance |-> distance, slice |-> slice]),
        !.slice_distances[slice] = UpdateSlice(@, distance)]

\* Faulty variant: the range test dropped, every pair is linked.
ConnectNoCutoff(self, ref_point, distance, angle) ==
    Accept(self, ref_point, distance, SliceOf(angle))

\* Faulty variant: the range test the wrong way round.
ConnectBeyondCutoff(self, ref_point, distance, angle) ==
    IF distance > ref_point_seek_range
    THEN Accept(self, ref_point, distance, SliceOf(angle))
    ELSE self

\* MeasurementPoint.connect_reference_point: the point after the call.
connect_reference_point(self, ref_point, distance, angle) ==
    LET slice == SliceOf(angle)
    IN  IF distance <= ref_point_seek_range
        THEN Accept(self, ref_point, distance, slice)
        ELSE self

\* Faulty variant: the two attributes live on the class, shared by every instance.
ConnectAtShared(points, i, ref_point, distance, angle) ==
    [k \in DOMAIN points |->
        connect_reference_point(points[k], ref_point, distance, angle)]

\* m_point.connect_reference_point(...) on the i-th object of a list: the
\* attributes are per instance (lines 54-55), so only that object changes.
ConnectAt(points, i, ref_point, distance, angle) ==
    [points EXCEPT ![i] = connect_reference_point(@, ref_point, distance, angle)]

-----------------------------------------------------------------------------
(* The correction routines *)

\* line 94: ref_point['slice'] == slice_data compares an int with the slice's
\* dict; Python's == between an int and a dict is False.
PyEqIntDict(i, d) == FALSE

HeightsOf(links) == [j \in 1..Len(links) |-> links[j].ref_point.height]

\* line 94: the heights kept by the production routine's filter.
ref_heights_production(measurement_point, slice_data) ==
    HeightsOf(SelectSeq(measurement_point.connected_refs,
                        LAMBDA l : PyEqIntDict(l.slice, slice_data)))

\* line 124: the heights kept by the verbose routine's filter (slice == i).
ref_heights_verbose(measurement_point, i) ==
    HeightsOf(SelectSeq(measurement_point.connected_refs, LAMBDA l : l.slice = i))

\* lines 97-101 and 128-132: the height difference, a rational.
avg_height_difference(measurement_point, ref_heights) ==
    IF ref_heights # <<>>
    THEN Rat(measurement_point.height * Len(ref_heights) - SumSeq(ref_heights),
             Len(ref_heights))
    ELSE Rat(measurement_point.height, 1)

\* lines 103-106: R - 0 + sqrt(h**2 + 0**2) - sqrt(h**2 + R**2) for h = num/den,
\* in whole metres (integer square roots, floor division).
Summand(R, h) ==
    (R * h.den + sqrt(h.num * h.num + 0 * 0)
        - sqrt(h.num * h.num + (R * h.den) * (R * h.den))) \div h.den

\* The height difference the production routine uses for slice i.
h_production(measurement_point, i) ==
    avg_height_difference(measurement_point,
        ref_heights_production(measurement_point, measurement_point.slice_distances[i]))

\* The height difference the verbose routine uses for slice i.
h_verbose(measurement_point, i) ==
    avg_height_difference(measurement_point, ref_heights_verbose(measurement_point, i))

\* lines 91-107: what slice i adds to the production routine's sum.
summand_production(measurement_point, i) ==
    IF measurement_point.slice_distances[i].farthest > 0
    THEN Summand(measurement_point.slice_distances[i].farthest,
                 h_production(measurement_point, i))
    ELSE 0

\* lines 120-149: what slice i adds to the verbose routine's sum.
summand_verbose(measurement_point, i) ==
    IF measurement_point.slice_distances[i].farthest > 0
    THEN Summand(measurement_point.slice_distances[i].farthest,
                 h_verbose(measurement_point, i))
    ELSE 0

calculate_correction(measurement_point) ==
    SumSeq([i \in Sectors |-> summand_production(measurement_point, i)])
        * ScaleProduction

calculate_correction_verbose(measurement_point) ==
    SumSeq([i \in Sectors |-> summand_verbose(measurement_point, i)])
        * ScaleVerbose

-----------------------------------------------------------------------------
(* Spec: one MeasurementPoint object driven through its methods.  Any        *)
(* sequence of connect_reference_point calls, with any reference point,     *)
(* distance and bearing, then the two correction routines.                  *)

Heights == {0, 100}

ReferenceObjects == {ReferencePoint("R50", 1000, 0, 50), ReferencePoint("R100", 0, 0, 100)}

\* Distances offered to the method: coincident, inside, on and beyond the cutoff.
Distances == {0, 1000, ref_point_seek_range, ref_point_seek_range + 1}

\* Bearings offered to the method: -pi, pi, 0, axes, diagonals, octant interiors.
Angles == {-pi, -7, -4, -2, 0, 1, 4, 6, pi}

Init ==
    /\ measurement_points \in {<<MeasurementPoint("M", 0, 0, h)>> : h \in Heights}
    /\ reference_points = <<>>
    /\ calls = <<>>
    /\ binned = <<>>
    /\ pc = "binning"
    /\ measurement_df = <<>>
    /\ reference_df = <<>>
    /\ grav_corrections = <<>>
    /\ verbose_corrections = <<>>
    /\ m_cursor = 0

Connect(ref_point, distance, angle) ==
    /\ pc = "binning"
    /\ Len(calls) < MaxCalls
    /\ measurement_points' = ConnectAt(measurement_points, 1, ref_point, distance, angle)
    /\ calls' = Append(calls, [ref_point |-> ref_point, distance |-> distance,
                               angle |-> angle])
    /\ UNCHANGED <<reference_points, binned, pc, measurement_df, reference_df,
                   grav_corrections, verbose_corrections, m_cursor>>

Calculate ==
    /\ pc = "binning"
    /\ grav_corrections' =
         [i \in DOMAIN measurement_points |-> calculate_correction(measurement_points[i])]
    /\ verbose_corrections' =
         [i \in DOMAIN measurement_points |->
            calculate_correction_verbose(measurement_points[i])]
    /\ pc' = "calculated"
    /\ UNCHANGED <<measurement_points, reference_points, calls, binned,
                   measurement_df, reference_df, m_cursor>>

ConnectAny ==
    \E ref_point \in ReferenceObjects, distance \in Distances, angle \in Angles :
        Connect(ref_point, distance, angle)

Next == ConnectAny \/ Calculate

Spec == Init /\ [][Next]_vars

-----------------------------------------------------------------------------
(* The binning loop, lines 160-164 *)

\* lines 161-164 for one m_point: every reference point of the list, in order.
RECURSIVE BinLoop(_, _)
BinLoop(m_point, r_points) ==
    IF r_points = <<>> THEN m_point
    ELSE BinLoop(connect_reference_point(m_point, Head(r_points),
                                         distance_to(m_point, Head(r_points)),
                                         angle_to(m_point, Head(r_points))),
                 Tail(r_points))

\* lines 160-164: the sequential double loop over both lists.
BinAll(m_points, r_points) ==
    [i \in DOMAIN m_points |-> BinLoop(m_points[i], r_points)]

SeqsUpTo(S, n) == UNION {[1..k -> S] : k \in 0..n}

\* Input records {id, north, east, height}.  From the first measurement
\* record the reference records lie at 1000 (bearing 0), at 0 (the same place,
\* bearing atan2(0, 0) = 0) and at 1250 (beyond the cutoff); from the second at
\* 400 (bearing 0), 600 (bearing pi) and 850 (inside an octant).
MeasurementRecords ==
    {[id |-> "M1", north |-> 0, east |-> 0, height |-> 100],
     [id |-> "M2", north |-> 600, east |-> 0, height |-> 0]}

ReferenceRecords ==
    {[id |-> "R1", north |-> 1000, east |-> 0, height |-> 50],
     [id |-> "R2", north |-> 0, east |-> 0, height |-> 100],
     [id |-> "R3", north |-> 1000, east |-> 750, height |-> 0]}

\* line 156
CreateMeasurementPointList(df) ==
    [i \in DOMAIN df |->
        MeasurementPoint(df[i].id, df[i].north, df[i].east, df[i].height)]

\* line 157, were its names bound
CreateReferencePointList(df) ==
    [i \in DOMAIN df |->
        ReferencePoint(df[i].id, df[i].north, df[i].east, df[i].height)]

\* Every planar distance between the drawn points is a whole number.
ExactDistances(m_points, r_points) ==
    \A i \in DOMAIN m_points, j \in DOMAIN r_points :
        distance_to(m_points[i], r_points[j]) * distance_to(m_points[i], r_points[j])
          = (m_points[i].north - r_points[j].north) * (m_points[i].north - r_points[j].north)
            + (m_points[i].east - r_points[j].east) * (m_points[i].east - r_points[j].east)

-----------------------------------------------------------------------------
(* SpecBin: the binning loop's body on lists of constructed points, the       *)
(* pairs taken in any order and any interleaving, then the corrections.      *)

InitBin ==
    /\ measurement_points \in
          {CreateMeasurementPointList(df) :
              df \in SeqsUpTo(MeasurementRecords, MaxMeasurements) \ {<<>>}}
    /\ reference_points \in
          {CreateReferencePointList(df) : df \in SeqsUpTo(ReferenceRecords, MaxReferences)}
    /\ ExactDistances(measurement_points, reference_points)
    /\ binned = [i \in DOMAIN measurement_points |-> {}]
    /\ calls = <<>>
    /\ pc = "binning"
    /\ measurement_df = <<>>
    /\ reference_df = <<>>
    /\ grav_corrections = <<>>
    /\ verbose_corrections = <<>>
    /\ m_cursor = 0

\* lines 162-164 for the pair (i-th measurement point, j-th reference point)
BinPair(i, j) ==
    /\ pc = "binning"
    /\ j \notin binned[i]
    /\ measurement_points' =
          ConnectAt(measurement_points, i, reference_points[j],
                    distance_to(measurement_points[i], reference_points[j]),
                    angle_to(measurement_points[i], reference_points[j]))
    /\ binned' = [binned EXCEPT ![i] = @ \cup {j}]
    /\ UNCHANGED <<reference_points, calls, pc, measurement_df, reference_df,
                   grav_corrections, verbose_corrections, m_cursor>>

AllBinned == \A i \in DOMAIN measurement_points : binned[i] = DOMAIN reference_points

\* line 170, once every pair has been offered
CalculateAll ==
    /\ pc = "binning"
    /\ AllBinned
    /\ grav_corrections' =
         [i \in DOMAIN measurement_points |-> calculate_correction(measurement_points[i])]
    /\ verbose_corrections' =
         [i \in DOMAIN measurement_points |->
            calculate_correction_verbose(measurement_points[i])]
    /\ pc' = "calculated"
    /\ UNCHANGED <<measurement_points, reference_points, calls, binned,
                   measurement_df, reference_df, m_cursor>>

BinAnyPair ==
    \E i \in DOMAIN measurement_points, j \in DOMAIN reference_points : BinPair(i, j)

NextBin == BinAnyPair \/ CalculateAll

SpecBin == InitBin /\ [][NextBin]_vars

-----------------------------------------------------------------------------
(* SpecDriver: the script as written, lines 156-170, on input records.       *)

InitDriver ==
    /\ measurement_df \in SeqsUpTo(MeasurementRecords, MaxMeasurements)
    /\ reference_df \in SeqsUpTo(ReferenceRecords, MaxReferences)
    /\ measurement_points = <<>>
    /\ reference_points = <<>>
    /\ binned = <<>>
    /\ calls = <<>>
    /\ pc = "create_measurement_points"
    /\ grav_corrections = <<>>
    /\ verbose_corrections = <<>>
    /\ m_cursor = 0

\* line 156
CreateMeasurementPoints ==
    /\ pc = "create_measurement_points"
    /\ measurement_points' = CreateMeasurementPointList(measurement_df)
    /\ pc' = "create_reference_points"
    /\ UNCHANGED <<reference_points, calls, binned, measurement_df, reference_df,
                   grav_corrections, verbose_corrections, m_cursor>>

\* line 157: the comprehension's body reads the global DEM_id_header, which no
\* line defines (line 40 defines DEM_point_id_header).  With no row the body
\* never runs; with a row the lookup raises NameError and the script ends.
CreateReferencePoints ==
    /\ pc = "create_reference_points"
    /\ IF reference_df = <<>>
       THEN reference_points' = <<>> /\ pc' = "binning"
       ELSE pc' = "NameError" /\ UNCHANGED reference_points
    /\ UNCHANGED <<measurement_points, calls, binned, measurement_df, reference_df,
                   grav_corrections, verbose_corrections, m_cursor>>

\* lines 160-164: one iteration of the outer loop, the inner loop whole.
BinMeasurementPoint ==
    /\ pc = "binning"
    /\ m_cursor < Len(measurement_points)
    /\ measurement_points' =
          [measurement_points EXCEPT ![m_cursor + 1] = BinLoop(@, reference_points)]
    /\ m_cursor' = m_cursor + 1
    /\ UNCHANGED <<reference_points, calls, binned, pc, measurement_df, reference_df,
                   grav_corrections, verbose_corrections>>

\* line 160: the outer loop is exhausted.
FinishBinning ==
    /\ pc = "binning"
    /\ m_cursor = Len(measurement_points)
    /\ pc' = "correcting"
    /\ UNCHANGED <<measurement_points, reference_points, calls, binned, measurement_df,
                   reference_df, grav_corrections, verbose_corrections, m_cursor>>

\* line 170: the next element of the list comprehension.
CorrectNext ==
    /\ pc = "correcting"
    /\ Len(grav_corrections) < Len(measurement_points)
    /\ grav_corrections' =
          Append(grav_corrections,
                 calculate_correction(measurement_points[Len(grav_corrections) + 1]))
    /\ UNCHANGED <<measurement_points, reference_points, calls, binned, pc,
                   measurement_df, reference_df, verbose_corrections, m_cursor>>

\* line 170: the comprehension is exhausted; lines 171-173 write the files.
FinishCorrections ==
    /\ pc = "correcting"
    /\ Len(grav_corrections) = Len(measurement_points)
    /\ pc' = "done"
    /\ UNCHANGED <<measurement_points, reference_points, calls, binned, measurement_df,
                   reference_df, grav_corrections, verbose_corrections, m_cursor>>

NextDriver ==
    \/ CreateMeasurementPoints
    \/ CreateReferencePoints
    \/ BinMeasurementPoint
    \/ FinishBinning
    \/ CorrectNext
    \/ FinishCorrections

SpecDriver == InitDriver /\ [][NextDriver]_vars

-----------------------------------------------------------------------------
(* Claims about the methods of one measurement point (under Spec) *)

\* The measurement point of the harness.
ThePoint == measurement_points[1]

LinksOfSector(m, i) == SelectSeq(m.connected_refs, LAMBDA l : l.slice = i)

DistancesOfSector(m, i) ==
    {LinksOfSector(m, i)[j].distance : j \in 1..Len(LinksOfSector(m, i))}

SetMin(S) == CHOOSE x \in S : \A y \in S : x <= y

SetMax(S) == CHOOSE x \in S : \A y \in S : x >= y

\* floor((theta + pi) / (pi/4)) mod 8 + 1, with the floor of the claim.
ClaimSector(theta) == (((theta + pi) \div (pi \div 4)) % 8) + 1

\* C1: in calculate_correction, for every sector whose bin is non-empty
\* (farthest > 0), the height difference used in the summand is the point's
\* height minus the mean height of the linked reference points of that sector.
C1_HeightDifferenceIsMeanDifference ==
    pc = "calculated" =>
        \A i \in Sectors :
            ThePoint.slice_distances[i].farthest > 0 =>
                LET hs == HeightsOf(LinksOfSector(ThePoint, i))
                IN  /\ Len(hs) > 0
                    /\ h_production(ThePoint, i)
                         = Rat(ThePoint.height * Len(hs) - SumSeq(hs), Len(hs))

\* The last call of a step that made one.
LastCall == calls'[Len(calls')]

NoTraceBeyondCutoff ==
    /\ \A j \in 1..Len(ThePoint.connected_refs) :
          ThePoint.connected_refs[j].distance <= ref_point_seek_range
    /\ \A i \in Sectors :
          /\ ThePoint.slice_distances[i].farthest <= ref_point_seek_range
          /\ \/ ThePoint.slice_distances[i].closest = Inf
             \/ ThePoint.slice_distances[i].closest <= ref_point_seek_range

\* C2: a call connect_reference_point(r, d, angle) with d beyond the cutoff
\* leaves the measurement point unchanged (no link appended, no closest or
\* farthest changed), so no link and no bin ever reflects a distance beyond
\* the cutoff.
C2_BeyondCutoffLeavesPointUnchanged ==
    [][/\ (calls' # calls /\ LastCall.distance > ref_point_seek_range)
            => measurement_points' = measurement_points
       /\ NoTraceBeyondCutoff']_vars

C2_Witness ==
    /\ Len(calls) = 2
    /\ calls[1].distance <= ref_point_seek_range
    /\ calls[2].distance > ref_point_seek_range
    /\ Len(ThePoint.connected_refs) = 1

\* C3: after any sequence of calls, for every sector k, farthest > 0 if and
\* only if at least one accepted link has sector index k (a reference point
\* at distance 0 included).
C3_FarthestPositiveIffMember ==
    \A i \in Sectors :
        ThePoint.slice_distances[i].farthest > 0 <=> LinksOfSector(ThePoint, i) # <<>>

\* C4: for every bearing in [-pi, pi] and every distance within the cutoff, the
\* call appends exactly one link, whose sector is in 1..8 and equals
\* floor((theta + pi) / (pi/4)) mod 8 + 1 (-pi and pi give 1, 0 gives 5), and
\* updates the bin of that sector only.
C4_OneSectorPerAcceptedCall ==
    [][(calls' # calls /\ LastCall.distance <= ref_point_seek_range
            /\ LastCall.angle \in -pi..pi)
        => LET old == ThePoint
               new == ThePoint'
               k == ClaimSector(LastCall.angle)
           IN  /\ k \in Sectors
               /\ ClaimSector(-pi) = 1 /\ ClaimSector(pi) = 1 /\ ClaimSector(0) = 5
               /\ Len(new.connected_refs) = Len(old.connected_refs) + 1
               /\ SubSeq(new.connected_refs, 1, Len(old.connected_refs))
                    = old.connected_refs
               /\ new.connected_refs[Len(new.connected_refs)]
                    = [ref_point |-> LastCall.ref_point,
                       distance |-> LastCall.distance, slice |-> k]
               /\ new.slice_distances[k].closest <= LastCall.distance
               /\ new.slice_distances[k].farthest >= LastCall.distance
               /\ \A i \in Sectors \ {k} :
                     new.slice_distances[i] = old.slice_distances[i]]_vars

C4_Witness ==
    /\ Len(calls) = 2
    /\ calls[1].angle = pi /\ calls[1].distance = 1000
    /\ calls[2].angle = -pi /\ calls[2].distance = ref_point_seek_range
    /\ Len(LinksOfSector(ThePoint, 1)) = 2

AllBinsEmpty(m) ==
    /\ m.connected_refs = <<>>
    /\ \A i \in Sectors :
          m.slice_distances[i].closest = Inf /\ m.slice_distances[i].farthest = 0

\* C6: a measurement point with no accepted reference point (no call at all,
\* or every call beyond the cutoff) has all 8 bins empty and
\* calculate_correction returns exactly 0, whatever the point's height.
C6_NoAcceptedReferenceGivesZero ==
    (\A j \in 1..Len(calls) : calls[j].distance > ref_point_seek_range)
        => /\ AllBinsEmpty(ThePoint)
           /\ pc = "calculated" => grav_corrections[1] = 0

C6_Witness ==
    /\ pc = "calculated"
    /\ Len(calls) = 2
    /\ \A j \in 1..Len(calls) : calls[j].distance > ref_point_seek_range
    /\ ThePoint.height # 0
    /\ grav_corrections[1] = 0

\* C9: after any sequence of calls, a sector with at least one accepted link has
\* closest = the minimum and farthest = the maximum distance of its links, so
\* closest <= farthest <= cutoff; a sector with none has closest = +infinity
\* and farthest = 0.
C9_ClosestFarthestAreMinMax ==
    \A i \in Sectors :
        LET ds == DistancesOfSector(ThePoint, i)
            bin == ThePoint.slice_distances[i]
        IN  IF ds = {}
            THEN bin.closest = Inf /\ bin.farthest = 0
            ELSE /\ bin.closest = SetMin(ds)
                 /\ bin.farthest = SetMax(ds)
                 /\ bin.closest <= bin.farthest
                 /\ bin.farthest <= ref_point_seek_range

C9_Witness ==
    \E i \in Sectors :
        /\ Len(LinksOfSector(ThePoint, i)) = 2
        /\ LinksOfSector(ThePoint, i)[1].distance = 1000
        /\ LinksOfSector(ThePoint, i)[2].distance = 0
        /\ ThePoint.slice_distances[i].closest = 0
        /\ ThePoint.slice_distances[i].farthest = 1000

\* C10: calculate_correction and calculate_correction_verbose add the same
\* summand for each of the 8 sectors, so the production result is the verbose
\* result times 10^5 / 1000 = 100.
C10_ProductionIsVerboseTimes100 ==
    pc = "calculated" =>
        /\ \A i \in Sectors :
              summand_production(ThePoint, i) = summand_verbose(ThePoint, i)
        /\ grav_corrections[1]
             = verbose_corrections[1] * (ScaleProduction \div ScaleVerbose)

-----------------------------------------------------------------------------
(* Claims about the binning loop (under SpecBin) and the driver (SpecDriver) *)

\* The point as constructed, before any binning.
Fresh(m) == MeasurementPoint(m.id, m.north, m.east, m.height)

\* The reference points with index in S, in list order.
Pick(r_points, S) ==
    LET F[j \in 0..Len(r_points)] ==
            IF j = 0 THEN <<>>
            ELSE IF j \in S THEN Append(F[j - 1], r_points[j]) ELSE F[j - 1]
    IN  F[Len(r_points)]

SameAggregates(m1, m2) ==
    \A k \in Sectors :
        /\ m1.slice_distances[k].closest = m2.slice_distances[k].closest
        /\ m1.slice_distances[k].farthest = m2.slice_distances[k].farthest

\* C5: for any M measurement records and R reference records the driver
\* builds both lists, connects all M x R pairs before any correction is
\* computed, and terminates with exactly M corrections, the i-th being
\* calculate_correction of the i-th record (duplicate identifiers included).
C5_DriverCompletesAligned ==
    /\ grav_corrections # <<>> =>
          /\ m_cursor = Len(measurement_df)
          /\ measurement_points
               = BinAll(CreateMeasurementPointList(measurement_df),
                        CreateReferencePointList(reference_df))
    /\ pc \in {"done", "NameError"} =>
          /\ pc = "done"
          /\ Len(grav_corrections) = Len(measurement_df)
          /\ \A i \in DOMAIN measurement_df :
                grav_corrections[i]
                  = calculate_correction(
                        BinLoop(CreateMeasurementPointList(measurement_df)[i],
                                CreateReferencePointList(reference_df)))

\* C7: binning the reference points in any order gives each of the 8 bins the
\* same closest and farthest, and calculate_correction the same value, as
\* binning them in list order.
C7_BinningOrderIndependent ==
    \A i \in DOMAIN measurement_points :
        LET ordered == BinLoop(Fresh(measurement_points[i]),
                               Pick(reference_points, binned[i]))
        IN  /\ SameAggregates(measurement_points[i], ordered)
            /\ pc = "calculated" => grav_corrections[i] = calculate_correction(ordered)

C7_Witness ==
    /\ pc = "calculated"
    /\ \E i \in DOMAIN measurement_points :
          LET links == measurement_points[i].connected_refs
          IN  /\ Len(reference_points) = 2
              /\ Len(links) = 2
              /\ links[1].ref_point = reference_points[2]
              /\ links[2].ref_point = reference_points[1]
              /\ links[1].slice = links[2].slice
              /\ links[1].distance < links[2].distance
              /\ grav_corrections[i] > 0

\* C8: a binning step on measurement point m changes only m's connected_refs
\* and bins, never a reference point or another measurement point, so every
\* interleaving of the points' binning steps ends in the bins and corrections
\* of the sequential double loop.
C8_BinningIndependentPerPoint ==
    [][/\ reference_points' = reference_points
       /\ \A i \in DOMAIN measurement_points :
             binned'[i] # binned[i] =>
                /\ Fresh(measurement_points'[i]) = Fresh(measurement_points[i])
                /\ \A k \in DOMAIN measurement_points \ {i} :
                      measurement_points'[k] = measurement_points[k]
       /\ pc' = "calculated" =>
             LET sequential == BinAll([i \in DOMAIN measurement_points |->
                                          Fresh(measurement_points[i])],
                                      reference_points)
             IN  \A i \in DOMAIN measurement_points :
                    /\ measurement_points'[i].slice_distances
                         = sequential[i].slice_distances
                    /\ grav_corrections'[i] = calculate_correction(sequential[i])]_vars

C8_Witness ==
    /\ pc = "binning"
    /\ Len(measurement_points) = 2
    /\ Len(reference_points) = 2
    /\ binned[1] = {2}
    /\ binned[2] = {1}
    /\ measurement_points[1].connected_refs # <<>>
    /\ measurement_points[2].connected_refs # <<>>
    /\ measurement_points[1] # measurement_points[2]

=============================================================================
